---------------------------- MODULE Spec2Model ----------------------------
(***************************************************************************)
(* Model of src/bin/atomicblastplus.py (Atomic Blast+ v5.0): the FASTA     *)
(* reader, the partitioner split_multifasta_by_increment, and main(): the  *)
(* derivation of the partition plan, the submission script, the qsub       *)
(* submission, the concatenation of the per-task artifacts and the cleanup.*)
(*                                                                         *)
(* Text is modelled as sequences of tokens (one-character strings, and     *)
(* whole words for fixed literals that are never split); a file's content  *)
(* is a sequence of lines without their final newline; the file system is  *)
(* a function from paths to contents.                                      *)
(***************************************************************************)
EXTENDS Integers, Sequences, FiniteSets, TLC

\* --------------------------------------------------------------- bounds
\* Largest number of lines of an input file of the partitioner's own
\* specification (SpecSplit).
MaxLines == 3
\* Largest -n/--nb_seq drawn.
MaxNbSeq == 2

\* ------------------------------------------------------ Python's values
\* Python's None (args.nb_file and args.output when the option is absent).
None == -1

\* format_seq's linereturn, as split_multifasta_by_increment passes it.
LineReturn == 80

\* ----------------------------------------------------- string helpers
\* str.isspace() for one character.
IsSpace(c) == c \in {" ", "\t"}

RECURSIVE lstrip(_)
\* str.lstrip(): without the leading whitespace.
lstrip(s) ==
    IF s = <<>> THEN <<>>
    ELSE IF IsSpace(Head(s)) THEN lstrip(Tail(s)) ELSE s

RECURSIVE rstrip(_)
\* str.rstrip(): without the trailing whitespace (the newline included,
\* which the model's lines do not carry).
rstrip(s) ==
    IF s = <<>> THEN <<>>
    ELSE IF IsSpace(s[Len(s)]) THEN rstrip(SubSeq(s, 1, Len(s) - 1)) ELSE s

\* str.strip()
strip(s) == lstrip(rstrip(s))

RECURSIVE join(_)
\* ''.join(list)
join(list) == IF list = <<>> THEN <<>> ELSE Head(list) \o join(Tail(list))

RECURSIVE Decimal(_)
\* "{0}".format(n) of a non-negative integer: its decimal digits.
Decimal(n) ==
    LET d == <<"0", "1", "2", "3", "4", "5", "6", "7", "8", "9">>[(n % 10) + 1]
    IN  IF n < 10 THEN <<d>> ELSE Decimal(n \div 10) \o <<d>>

\* line[0] == '>': a line read from a file is never empty (it holds at
\* least its newline), so line[0] of a blank line is the newline.
IsHeaderLine(line) == line # <<>> /\ Head(line) = ">"

\* --------------------------------------------------------- FASTA reader
\* The locals of the generator read_fasta_file_handle when it is created:
\* i is the next line of the file, done is set once the generator has
\* ended.
ReaderStart ==
    [i |-> 1, header |-> <<>>, seqlines |-> <<>>, sequence_nb |-> 0, done |-> FALSE]

RECURSIVE ResumeReader(_, _)
\* The generator resumed with the locals g, up to its next yield: the
\* record it yields (stop: it ends without one) and its locals then. After
\* the yield of line 125 the generator goes on with lines 126 to 129, which
\* the locals returned already hold.
ResumeReader(lines, g) ==
    IF g.done
    THEN [stop |-> TRUE, rec |-> <<>>, g |-> g]
    ELSE IF g.i > Len(lines)
    THEN [stop |-> FALSE,
          rec |-> [header |-> g.header, sequence |-> join(g.seqlines)],
          g |-> [g EXCEPT !.done = TRUE]]
    ELSE IF IsHeaderLine(lines[g.i])
         THEN IF g.sequence_nb # 0
              THEN [stop |-> FALSE,
                    rec |-> [header |-> g.header, sequence |-> join(g.seqlines)],
                    g |-> [i |-> g.i + 1, header |-> rstrip(Tail(lines[g.i])),
                           seqlines |-> <<>>, sequence_nb |-> g.sequence_nb + 1,
                           done |-> FALSE]]
              ELSE ResumeReader(lines,
                       [g EXCEPT !.i = @ + 1, !.header = rstrip(Tail(lines[g.i])),
                                 !.sequence_nb = @ + 1])
         ELSE ResumeReader(lines,
                  [g EXCEPT !.i = @ + 1, !.seqlines = Append(@, strip(lines[g.i]))])

RECURSIVE ReadFrom(_, _)
\* The records the generator yields from the locals g on, the final
\* unconditional yield included.
ReadFrom(lines, g) ==
    LET r == ResumeReader(lines, g)
    IN  IF r.stop THEN <<>> ELSE <<r.rec>> \o ReadFrom(lines, r.g)

\* read_fasta_file_handle: the records the generator yields for a file.
read_fasta_file_handle(lines) == ReadFrom(lines, ReaderStart)

RECURSIVE FormatFrom(_, _, _)
\* format_seq's loop from offset i (0-based): one line per slice.
FormatFrom(seq, i, linereturn) ==
    IF i >= Len(seq) THEN <<>>
    ELSE <<SubSeq(seq, i + 1, IF i + linereturn < Len(seq)
                              THEN i + linereturn ELSE Len(seq))>>
         \o FormatFrom(seq, i + linereturn, linereturn)

\* format_seq: the lines of the returned text (each ends with a newline).
format_seq(seq, linereturn) == FormatFrom(seq, 0, linereturn)

\* The lines the two subfile_fh.write calls add for one record: the header
\* line, the wrapped sequence, and the blank line of the second newline.
WrittenLines(header, sequence) ==
    <<<<">">> \o header>> \o format_seq(sequence, LineReturn) \o << <<>> >>


\* ------------------------------------------------------------ the state
VARIABLES
    pc,                 \* where main() stands
    input,              \* the lines of args.input_file
    nb_seq,             \* args.nb_seq
    nb_file,            \* args.nb_file (None when -f is absent)
    steps,              \* the digits args.steps holds
    batch,              \* args.batch
    output_format,      \* args.output_format
    dont_wait,          \* args.dont_wait
    no_cleanup,         \* args.no_cleanup
    batch_arg,          \* -b/--batch as the caller gave it
    no_cleanup_arg,     \* --no_cleanup as the caller gave it
    output,             \* args.output
    output_directory,   \* main's output_directory
    subfiles_basename,  \* main's subfiles_basename
    total_subfiles_nb,  \* main's total_subfiles_nb
    sge_qsub_command_line, \* the options of the qsub command main builds
    global_error_code,  \* main's global_error_code
    sge_job_id,         \* main's sge_job_id
    ext_i,              \* position of the loop over the three extensions
    rec_i,              \* records split_multifasta_by_increment consumed
    subfile_nb,         \* split_multifasta_by_increment's subfile_nb
    sequence_nb,        \* split_multifasta_by_increment's sequence_nb
    subfile_fh,         \* path subfile_fh is open on (<<>>: None)
    reader,             \* the locals of the generator the partitioner reads
    open_fhs,           \* the unit files a file object is open on
    refcounted,         \* the interpreter closes a file object as soon as
                        \* nothing refers to it (CPython), or not before the
                        \* end of the run (a collector that runs later)
    fs,                 \* the file system: path -> lines
    cmds,               \* the run_shell calls so far: command and exit code
    final_msg,          \* the closing message main wrote ("" before it)
    exit_status,        \* the process exit status (None while running)
    output_arg,         \* -o/--output as the caller gave it (<<>>: absent)
    pid,                \* os.getpid()
    fs_start,           \* the file system as main found it
    sge_qsub_script_fh, \* sge_qsub_script_fh: "none", "open" or "closed"
    sge_qsub_out,       \* sge_qsub_out: the lines qsub wrote to its stdout
    raised              \* the exception that ended the run ("" for none)

vars == <<pc, input, nb_seq, nb_file, steps, batch, output_format, dont_wait,
          no_cleanup, batch_arg, no_cleanup_arg, output, output_directory, subfiles_basename,
          total_subfiles_nb, sge_qsub_command_line, global_error_code,
          sge_job_id, ext_i, rec_i, subfile_nb, sequence_nb, subfile_fh,
          reader, open_fhs, refcounted, fs, cmds, final_msg, exit_status,
          output_arg, pid, fs_start,
          sge_qsub_script_fh, sge_qsub_out, raised>>

args_vars == <<input, nb_file, steps, output_format, dont_wait, batch_arg,
               no_cleanup_arg, output, output_directory, subfiles_basename,
               output_arg, pid, fs_start, refcounted>>
split_vars == <<rec_i, subfile_nb, sequence_nb, subfile_fh, reader, open_fhs>>
shell_vars == <<sge_qsub_command_line, global_error_code, sge_job_id, ext_i,
                cmds, final_msg, exit_status, sge_qsub_out>>

\* ---------------------------------------------------------------- paths
\* args.input_file, args.program and the last component of args.database.
InputFile == <<"q", ".", "fa">>
Program == "blastp"
DatabaseName == "nr"

\* re.sub(r'(\.fasta|\.fa|\.fsa)$', '', name)
StripFastaExtension(name) ==
    IF /\ Len(name) >= 2
       /\ name[Len(name) - 1] = "."
       /\ name[Len(name)] \in {"fasta", "fa", "fsa"}
    THEN SubSeq(name, 1, Len(name) - 2)
    ELSE name

\* subfiles_basename: the input's basename without its fasta extension,
\* completed with ".atomic_{program}_vs_{database}".
SubfilesBasename(input_file, program, database_name) ==
    StripFastaExtension(input_file)
        \o <<".", "atomic_", program, "_vs_", database_name>>

\* subfile_name: "{0}.{1}.fasta"
SubfileName(n, basename) == Decimal(n) \o <<".">> \o basename \o <<".", "fasta">>

\* subfile_path: "{0}/{1}"
SubfilePath(directory_path, n, basename) ==
    directory_path \o <<"/">> \o SubfileName(n, basename)

\* open(path, 'w'): the file exists and is empty.
OpenW(files, path) ==
    [p \in DOMAIN files \cup {path} |-> IF p = path THEN <<>> ELSE files[p]]

\* fh.write: the lines are added at the end of the open file.
WriteLines(files, path, lines) == [files EXCEPT ![path] = @ \o lines]

\* ------------------------------------------------------ the partitioner
\* A subfile is opened one record too late: a plausible slip of the test.
NewSubfileDueLate(seq_nb, max_nb_seq) == seq_nb % (max_nb_seq + 1) = 0

\* "if sequence_nb % max_nb_seq == 0": a new subfile is due.
NewSubfileDue(seq_nb, max_nb_seq) == seq_nb % max_nb_seq = 0

\* The error is reported and the run goes on to the next step (the
\* "raise" of line 172 left out): a plausible slip.
AfterOpenFailureGoesOn == "script"

\* Where main stands after open(subfile_path, 'w') has failed: the handler
\* of lines 170 to 172 writes its message and raises again, nothing
\* catches the exception, and the run ends there.
AfterOpenFailure == "crashed"

\* Lines 160 and 161: the last opened subfile is closed before the next
\* is opened, when there is one.
ClosePrevious(handles, nb, fh) == IF nb # 0 THEN handles \ {fh} ELSE handles

\* One iteration of split_multifasta_by_increment's loop: the next record
\* of the reader, a new subfile when sequence_nb is a multiple of
\* max_nb_seq (its creation may fail), and the record written to the open
\* subfile.
SplitRecord ==
    /\ pc = "split"
    /\ LET next == ResumeReader(input, reader)
           rec == next.rec
       IN  /\ ~next.stop
           /\ LET lines == WrittenLines(rec.header, rec.sequence)
              IN  IF nb_seq = 0
                  THEN \* ZeroDivisionError in sequence_nb % max_nb_seq
                       /\ pc' = "crashed"
                       /\ raised' = "ZeroDivisionError"
                       /\ exit_status' = 1
                       /\ UNCHANGED <<rec_i, subfile_nb, sequence_nb, subfile_fh, fs,
                                      open_fhs>>
                  ELSE IF NewSubfileDue(sequence_nb, nb_seq)
                  THEN LET path == SubfilePath(output_directory, subfile_nb + 1,
                                               subfiles_basename)
                           closed == ClosePrevious(open_fhs, subfile_nb, subfile_fh)
                       IN  \/ /\ subfile_nb' = subfile_nb + 1
                              /\ subfile_fh' = path
                              /\ open_fhs' = closed \cup {path}
                              /\ fs' = WriteLines(OpenW(fs, path), path, lines)
                              /\ sequence_nb' = sequence_nb + 1
                              /\ rec_i' = rec_i + 1
                              /\ UNCHANGED <<pc, raised, exit_status>>
                           \/ \* open(subfile_path, 'w') raises
                              /\ subfile_nb' = subfile_nb + 1
                              /\ pc' = AfterOpenFailure
                              /\ raised' = "IOError"
                              /\ exit_status' = 1
                              /\ open_fhs' = closed
                              /\ UNCHANGED <<subfile_fh, sequence_nb, rec_i, fs>>
                  ELSE /\ fs' = WriteLines(fs, subfile_fh, lines)
                       /\ sequence_nb' = sequence_nb + 1
                       /\ rec_i' = rec_i + 1
                       /\ UNCHANGED <<pc, subfile_nb, subfile_fh, raised, exit_status,
                                      open_fhs>>
           /\ reader' = next.g
    /\ UNCHANGED <<args_vars, nb_seq, batch, no_cleanup, total_subfiles_nb,
                   sge_qsub_command_line, global_error_code, sge_job_id,
                   ext_i, cmds, final_msg, sge_qsub_out, sge_qsub_script_fh>>

\* "return subfile_nb" is indented into the loop, and the function returns
\* after its first record: a plausible slip.
ReturnInsideLoop(i, stopped) == i >= 1

\* The loop of line 156 has consumed every record the reader yields: the
\* generator, resumed once more, ends.
ReaderExhausted(i, stopped) == stopped

\* The open file objects when split_multifasta_by_increment has returned:
\* nothing closes the last subfile, whose only reference is the local
\* subfile_fh; an interpreter that counts references closes it when the
\* frame goes, another leaves it open until its collector runs.
HandlesAfterReturn(handles, rc) == IF rc THEN {} ELSE handles

\* The reader is exhausted: split_multifasta_by_increment returns
\* subfile_nb, which main keeps as total_subfiles_nb.
SplitReturn ==
    /\ pc = "split"
    /\ ReaderExhausted(rec_i, ResumeReader(input, reader).stop)
    /\ total_subfiles_nb' = subfile_nb
    /\ pc' = "script"
    /\ open_fhs' = HandlesAfterReturn(open_fhs, refcounted)
    /\ UNCHANGED <<args_vars, nb_seq, batch, no_cleanup, rec_i, subfile_nb,
                   sequence_nb, subfile_fh, reader, fs, shell_vars,
                   sge_qsub_script_fh, raised>>

\* ------------------------------------------------------ the partition plan
\* Every '>' is counted, and not every line that holds one: a plausible
\* slip (a header may hold several).
GrepCountCharacters(lines) ==
    Cardinality({<<i, k>> \in (1..Len(lines)) \X (1..20) :
                    k <= Len(lines[i]) /\ lines[i][k] = ">"})

\* "grep -c '>' file": the lines that hold a '>' anywhere.
GrepCount(lines) ==
    Cardinality({i \in 1..Len(lines) : \E k \in 1..Len(lines[i]) : lines[i][k] = ">"})

\* The quotient is truncated: a plausible slip of the rounding.
DerivedNbSeqFloor(input_file_nb_seq, f) == input_file_nb_seq \div f

\* One is added even when the division is exact: another plausible slip.
DerivedNbSeqAlwaysUp(input_file_nb_seq, f) == (input_file_nb_seq \div f) + 1

\* args.nb_seq when -f is given: the float quotient, plus one when it has a
\* fractional part, truncated by int().
DerivedNbSeq(input_file_nb_seq, f) ==
    IF input_file_nb_seq % f # 0
    THEN (input_file_nb_seq \div f) + 1
    ELSE input_file_nb_seq \div f

\* The partitioner is called whatever the steps are: a plausible slip.
AfterPlanAlwaysSplits(s) == "split"

\* "if args.steps.count('1')": step 1 enters the partitioner, and without
\* it main goes on to the script.
AfterPlan(s) == IF 1 \in s THEN "split" ELSE "script"

\* Lines 265 to 281 of main up to the call of the partitioner: with -f,
\* the sequences are counted (grep exits 1 when it counts none, and
\* check_output raises) and args.nb_seq is derived; total_subfiles_nb
\* starts as args.nb_file; step 1 enters split_multifasta_by_increment.
PlanPartition ==
    /\ pc = "start"
    /\ IF nb_file # None /\ nb_file # 0 /\ GrepCount(input) = 0
       THEN /\ pc' = "crashed"
            /\ raised' = "CalledProcessError"
            /\ exit_status' = 1
            /\ UNCHANGED <<nb_seq, total_subfiles_nb>>
       ELSE /\ nb_seq' = IF nb_file # None /\ nb_file # 0
                         THEN DerivedNbSeq(GrepCount(input), nb_file)
                         ELSE nb_seq
            /\ total_subfiles_nb' = nb_file
            /\ pc' = AfterPlan(steps)
            /\ UNCHANGED <<exit_status, raised>>
    /\ UNCHANGED <<args_vars, batch, no_cleanup, split_vars, fs,
                   sge_qsub_command_line, global_error_code, sge_job_id,
                   ext_i, cmds, final_msg, sge_qsub_out, sge_qsub_script_fh>>

\* ------------------------------------------------- the submission script
\* The branch of the pairwise format is left out: a plausible slip.
OutputFileExtensionTwoWay(fmt) == IF fmt = "xml" THEN "xml" ELSE "tab"

\* output_file_extension
OutputFileExtension(fmt) ==
    IF fmt = "xml" THEN "xml" ELSE IF fmt = "pairwise" THEN "txt" ELSE "tab"

\* blast_output_format
BlastOutputFormat(fmt) ==
    CASE fmt = "tabular" -> "6"
      [] fmt = "pairwise" -> "0"
      [] fmt = "xml" -> "5"
      [] fmt = "extended" -> "'6 std qlen slen'"

\* sge_qsub_script_path: "{0}/qsub.{1}.sh"
ScriptPath(directory, basename) ==
    directory \o <<"/", "qsub", ".">> \o basename \o <<".", "sh">>

\* The task index is written before the job id: a plausible slip of the
\* script's file names.
ScriptTaskFileTaskFirst(directory, basename, extension) ==
    directory \o <<"/", "$SGE_TASK_ID", ".", "$JOB_ID", ".">> \o basename
        \o <<".", extension>>

\* A per-task file as the script names it: "{outdir}/$JOB_ID.$SGE_TASK_ID.{subname}.{ext}"
ScriptTaskFile(directory, basename, extension) ==
    directory \o <<"/", "$JOB_ID", ".", "$SGE_TASK_ID", ".">> \o basename
        \o <<".", extension>>

\* blast_command_line, with the defaults of the options the model keeps
\* fixed (database, e-value, max targets, no extra option).
BlastCommandLine(directory, basename, fmt) ==
    <<Program, " -query ">>
        \o directory \o <<"/", "$SGE_TASK_ID", ".">> \o basename \o <<".", "fasta">>
        \o <<" -out ">> \o ScriptTaskFile(directory, basename, OutputFileExtension(fmt))
        \o <<" -db ", "/db/blast/all/nr", " -evalue ", "10.0", " -outfmt ",
             BlastOutputFormat(fmt)>>
        \o (IF fmt = "pairwise"
            THEN <<" -num_descriptions ", "500", " -num_alignments ", "500">>
            ELSE <<" -max_target_seqs ", "500">>)
        \o <<" -num_threads 1 ">>

\* The text main writes to the script: the directives and the command line
\* with its two redirections.
ScriptText(directory, basename, fmt) ==
    << <<>>,
       <<"#!/bin/bash">>,
       <<"#$ -S /bin/bash">>,
       <<"#$ -o /dev/null">>,
       <<"#$ -e /dev/null">>,
       <<"#$ -cwd">>,
       <<"#$ -M ", "user", "@sb-roscoff.fr">>,
       <<"#$ -m ", "a">>,
       <<"#$ -V">>,
       BlastCommandLine(directory, basename, fmt)
           \o <<" > ">> \o ScriptTaskFile(directory, basename, "out")
           \o <<" 2> ">> \o ScriptTaskFile(directory, basename, "err") >>

\* Lines 283 to 368 of main: the script file is opened for writing (and so
\* emptied) whatever the steps are; when step 2 runs its text is written
\* and the file is closed, and without step 2 the handle stays open.
GenerateScript ==
    /\ pc = "script"
    /\ LET path == ScriptPath(output_directory, subfiles_basename)
       IN  fs' = IF 2 \in steps
                 THEN WriteLines(OpenW(fs, path), path,
                                 ScriptText(output_directory, subfiles_basename,
                                            output_format))
                 ELSE OpenW(fs, path)
    /\ sge_qsub_script_fh' = IF 2 \in steps THEN "closed" ELSE "open"
    /\ pc' = "qsub"
    /\ UNCHANGED <<args_vars, nb_seq, batch, no_cleanup, total_subfiles_nb,
                   split_vars, shell_vars, raised>>

\* ------------------------------------------------------ the qsub command
\* args.batch for "all": "1-{subfilenb}" with main's total_subfiles_nb.
AllTaskRange(total) == [kind |-> "range", first |-> 1, last |-> total]

\* The flag is left as it is for an explicit batch too: a plausible slip
\* (line 378 left out).
NoCleanupKeptForBatch(kind, flag) == flag

\* args.no_cleanup after lines 373 to 378: a batch other than "all" turns
\* cleanup off.
NoCleanupForBatch(kind, flag) == IF kind = "all" THEN flag ELSE TRUE

\* Lines 372 to 388 of main: "all" becomes the range 1-total_subfiles_nb,
\* any other batch turns cleanup off; the options of the qsub command.
BuildQsubCommand ==
    /\ pc = "qsub"
    /\ batch' = IF batch.kind = "all" THEN AllTaskRange(total_subfiles_nb) ELSE batch
    /\ no_cleanup' = NoCleanupForBatch(batch.kind, no_cleanup)
    /\ sge_qsub_command_line' =
           [t |-> batch', sync |-> ~dont_wait,
            script |-> ScriptPath(output_directory, subfiles_basename)]
    /\ pc' = IF 3 \in steps THEN "submit" ELSE "exit"
    /\ UNCHANGED <<args_vars, nb_seq, total_subfiles_nb, split_vars, fs,
                   global_error_code, sge_job_id, ext_i, cmds, final_msg,
                   exit_status, sge_qsub_out, sge_qsub_script_fh, raised>>

\* ------------------------------------------------------------ the shell
\* Largest exit code a command returns in the model.
MaxExitCode == 1
ExitCodes == 0..MaxExitCode

Digits == {"0", "1", "2", "3", "4", "5", "6", "7", "8", "9"}

\* The words of the model's file names, in ascending byte order of their
\* text; a word sorts after every digit, '.', '-' and '/', as its first
\* character does.
Words == <<"_vs_", "atomic_", "blastp", "err", "fa", "fasta", "nr", "old",
           "out", "pid", "q", "qsub", "res", "sh", "tab", "txt", "wd", "xml">>

\* The rank of a token in the byte order of the C locale.
TokenCode(tok) ==
    CASE tok = "-" -> 45
      [] tok = "." -> 46
      [] tok = "/" -> 47
      [] tok \in Digits -> 48 + (CHOOSE d \in 0..9 : Decimal(d) = <<tok>>)
      [] OTHER -> 1000 + (CHOOSE k \in 1..Len(Words) : Words[k] = tok)

RECURSIVE LexLess(_, _)
\* a sorts before b as the shell sorts the names of an expansion: by the
\* first token that differs, a proper prefix first.
LexLess(a, b) ==
    IF b = <<>> THEN FALSE
    ELSE IF a = <<>> THEN TRUE
    ELSE IF Head(a) = Head(b) THEN LexLess(Tail(a), Tail(b))
    ELSE TokenCode(Head(a)) < TokenCode(Head(b))

RECURSIVE GlobMatch(_, _)
\* A path matches a pattern: '*' stands for any tokens but '/'.
GlobMatch(path, pattern) ==
    IF pattern = <<>> THEN path = <<>>
    ELSE IF Head(pattern) = "*"
         THEN \/ GlobMatch(path, Tail(pattern))
              \/ /\ path # <<>>
                 /\ Head(path) # "/"
                 /\ GlobMatch(Tail(path), pattern)
         ELSE /\ path # <<>>
              /\ Head(path) = Head(pattern)
              /\ GlobMatch(Tail(path), Tail(pattern))

RECURSIVE SortedByName(_)
\* The paths of a set in ascending order of their names.
SortedByName(paths) ==
    IF paths = {} THEN <<>>
    ELSE LET first == CHOOSE p \in paths : \A q \in paths \ {p} : LexLess(p, q)
         IN  <<first>> \o SortedByName(paths \ {first})

\* The shell's expansion of a pattern: the matching paths, sorted by name.
Glob(files, pattern) ==
    SortedByName({p \in DOMAIN files : GlobMatch(p, pattern)})

RECURSIVE CatFiles(_, _)
\* cat file...: the contents one after the other.
CatFiles(files, paths) ==
    IF paths = <<>> THEN <<>>
    ELSE files[Head(paths)] \o CatFiles(files, Tail(paths))

\* The three lines awk's print "\n---------------------\n" writes.
Separator == << <<>>, <<"---------------------">>, <<>> >>

RECURSIVE AwkFiles(_, _)
\* awk 'FNR==1{print "\n---------------------\n"}1' file...: every line,
\* and the separator before the first line of each file.
AwkFiles(files, paths) ==
    IF paths = <<>> THEN <<>>
    ELSE (IF files[Head(paths)] = <<>> THEN <<>>
          ELSE Separator \o files[Head(paths)])
         \o AwkFiles(files, Tail(paths))

\* cat_program
CatProgram(fmt) == IF fmt = "pairwise" THEN "awk" ELSE "cat"

\* The paths under a directory are gone (rm -rf).
RemoveTree(files, directory) ==
    LET under(p) == /\ Len(p) > Len(directory)
                    /\ SubSeq(p, 1, Len(directory)) = directory
                    /\ p[Len(directory) + 1] = "/"
    IN  [p \in {q \in DOMAIN files : ~under(q)} |-> files[p]]

\* -------------------------------------------------------- the array job
\* The job identifiers the scheduler gives.
JobIds == { <<"1", "2">> }

\* The first line of qsub's output when it accepts an array job.
QsubAck(jobid, range) ==
    <<"Your job-array ">> \o jobid \o <<".">> \o Decimal(range.first) \o <<"-">>
        \o Decimal(range.last) \o <<":", "1", " has been submitted">>

\* qsub's output when it rejects the submission.
QsubRefusal == <<"Unable to run job">>

\* The scheduler takes a range first-last with 1 <= first <= last.
ValidRange(range) == range.first >= 1 /\ range.last >= range.first

\* i..j of the line are digits, and at least one.
AllDigits(line, i, j) == i <= j /\ \A k \in i..j : line[k] \in Digits

\* 'Your job-array (\d+).\d+-\d+:.*' matches at position p of the line
\* with the group ending at g.
AckMatch(line, p, g) ==
    /\ line[p] = "Your job-array "
    /\ AllDigits(line, p + 1, g)
    /\ g + 1 <= Len(line)
    /\ \E m \in (g + 2)..Len(line) : \E n \in (m + 2)..Len(line) :
           /\ AllDigits(line, g + 2, m)
           /\ line[m + 1] = "-"
           /\ AllDigits(line, m + 2, n)
           /\ n + 1 <= Len(line)
           /\ line[n + 1] = ":"

\* re.findall(pattern, first_line): the groups of the matches, the leftmost
\* match first and its group as long as the pattern allows.
FindJobIds(line) ==
    LET starts == {p \in 1..Len(line) : \E g \in p..Len(line) : AckMatch(line, p, g)}
    IN  IF starts = {} THEN <<>>
        ELSE LET p == CHOOSE x \in starts : \A y \in starts : x <= y
                 ends == {x \in p..Len(line) : AckMatch(line, p, x)}
                 g == CHOOSE x \in ends : \A y \in ends : y <= x
             IN  <<SubSeq(line, p + 1, g)>>

\* sge_qsub_out.split('\n')[0]: the first line of a text, and the empty
\* string for an empty text.
FirstLine(text) == IF text = <<>> THEN <<>> ELSE text[1]

\* The scheduler's acknowledgment "Your job-array <id>.<first>-<last>:<step>"
\* stands at position p of the line, its <id> ending at g.
AckAt(line, p, g) ==
    /\ line[p] = "Your job-array "
    /\ AllDigits(line, p + 1, g)
    /\ g + 1 <= Len(line)
    /\ line[g + 1] = "."
    /\ \E m \in (g + 2)..Len(line) : \E n \in (m + 2)..Len(line) :
           /\ AllDigits(line, g + 2, m)
           /\ line[m + 1] = "-"
           /\ AllDigits(line, m + 2, n)
           /\ n + 2 <= Len(line)
           /\ line[n + 1] = ":"
           /\ line[n + 2] \in Digits

\* The lines of a text that hold an acknowledgment.
AckLines(text) ==
    {k \in 1..Len(text) :
        \E p \in 1..Len(text[k]) : \E g \in p..Len(text[k]) : AckAt(text[k], p, g)}

\* The <id> of the first acknowledgment of a text that holds one: the job
\* the scheduler has accepted.
AcknowledgedId(text) ==
    LET k == CHOOSE x \in AckLines(text) : \A y \in AckLines(text) : x <= y
        line == text[k]
        at == {x \in 1..Len(line) : \E g \in x..Len(line) : AckAt(line, x, g)}
        p == CHOOSE x \in at : \A y \in at : x <= y
        g == CHOOSE x \in p..Len(line) : AckAt(line, p, x)
    IN  SubSeq(line, p + 1, g)

\* What qsub writes to its stdout in a run: its refusal, or, for a range
\* the scheduler takes, the acknowledgment of the array job.
QsubReplies(range) ==
    {<<QsubRefusal>>} \cup
        (IF ValidRange(range) THEN {<<QsubAck(j, range)>> : j \in JobIds} ELSE {})

\* The position of a token in a line.
IndexOfToken(line, tok) == CHOOSE k \in 1..Len(line) : line[k] = tok

\* A path of the script with $JOB_ID and $SGE_TASK_ID set by the scheduler.
RECURSIVE Substitute(_, _, _)
Substitute(tokens, jobid, t) ==
    IF tokens = <<>> THEN <<>>
    ELSE (CASE Head(tokens) = "$JOB_ID" -> jobid
            [] Head(tokens) = "$SGE_TASK_ID" -> Decimal(t)
            [] OTHER -> <<Head(tokens)>>)
         \o Substitute(Tail(tokens), jobid, t)

\* The line of a result that names the query a hit belongs to: the header
\* of the first record of the -query file.
QueryLine(lines) ==
    IF lines = <<>> THEN <<"Query= ">> ELSE <<"Query= ">> \o Tail(lines[1])

\* What task t of job jobid does when the scheduler runs the script: the
\* shell creates the files of the two redirections; the search program
\* writes its -out file, which names its query, when it can read its
\* -query file.
RunTask(files, script, jobid, t) ==
    IF script = <<>> THEN files
    ELSE LET line == script[Len(script)]
             word(a, b) == Substitute(SubSeq(line, IndexOfToken(line, a) + 1,
                                             IndexOfToken(line, b) - 1), jobid, t)
             query == word(" -query ", " -out ")
             result == word(" -out ", " -db ")
             stdout == word(" > ", " 2> ")
             stderr == Substitute(SubSeq(line, IndexOfToken(line, " 2> ") + 1,
                                         Len(line)), jobid, t)
             ran == query \in DOMAIN files
             made == {stdout, stderr} \cup (IF ran THEN {result} ELSE {})
         IN  [p \in DOMAIN files \cup made |->
                 IF p = result /\ ran
                 THEN << <<"hit">> \o Decimal(t), QueryLine(files[query]) >>
                 ELSE IF p = stdout THEN << <<"out">> \o Decimal(t) >>
                 ELSE IF p = stderr THEN << <<"err">> \o Decimal(t) >>
                 ELSE files[p]]

RECURSIVE RunTasks(_, _, _, _, _)
\* The tasks first..last of the array job have run.
RunTasks(files, script, jobid, first, last) ==
    IF first > last THEN files
    ELSE RunTasks(RunTask(files, script, jobid, first), script, jobid,
                  first + 1, last)

\* --------------------------------------------------- main: step 3 to exit
\* The error code of a command replaces the accumulator instead of being
\* added to it: a plausible slip.
AccumulateOverwrite(acc, errcode) == errcode

\* global_error_code += errcode
Accumulate(acc, errcode) == acc + errcode

\* The flag is left as the caller set it: a plausible slip.
RevertKeep(flag, errcode) == flag

\* The test is "errcode >= 0", and every command turns cleanup off: a
\* plausible slip.
RevertOnAnyCode(flag, errcode) == IF errcode >= 0 THEN TRUE ELSE flag

\* "if errcode > 0: args.no_cleanup = True"
RevertToNoCleanup(flag, errcode) == IF errcode > 0 THEN TRUE ELSE flag

\* The run waits for the tasks even with --dont_wait: a plausible slip.
AfterSubmitAlwaysWaits(errcode, ids, dw) ==
    IF ids = <<>> THEN "crashed" ELSE "cat"

\* A positive exit code of qsub ends the run: a plausible slip.
AfterSubmitStopsOnError(errcode, ids, dw) ==
    IF ids = <<>> THEN "crashed"
    ELSE IF errcode > 0 \/ dw THEN "exit" ELSE "cat"

\* A reply without a job id is passed over and the run goes to its end: a
\* plausible slip.
AfterSubmitWithoutId(errcode, ids, dw) ==
    IF ids = <<>> \/ dw THEN "exit" ELSE "cat"

\* Where main stands after line 400: "[0]" raises IndexError when findall
\* found no job id, whatever qsub's exit code was; with --dont_wait the
\* block of lines 401 to 431 is skipped; else the loop of line 407 starts.
AfterSubmit(errcode, ids, dw) ==
    IF ids = <<>> THEN "crashed"
    ELSE IF dw THEN "exit" ELSE "cat"

\* Lines 391 to 401 of main when qsub writes out and exits with errcode
\* (with -sync yes it returns when every task has ended): the exit code is
\* added to global_error_code and a positive one turns cleanup off; the
\* job id is the first group found in the first line of qsub's output.
SubmitGets(out, errcode) ==
    /\ pc = "submit"
    /\ cmds' = Append(cmds, [cmd |-> "qsub", ext |-> "", code |-> errcode])
    /\ sge_qsub_out' = out
    /\ global_error_code' = Accumulate(global_error_code, errcode)
    /\ no_cleanup' = RevertToNoCleanup(no_cleanup, errcode)
    /\ LET ids == FindJobIds(FirstLine(out))
           next == AfterSubmit(errcode, ids, dont_wait)
       IN  /\ pc' = next
           /\ sge_job_id' = IF ids = <<>> THEN sge_job_id ELSE ids[1]
           /\ IF next = "crashed"
              THEN raised' = "IndexError" /\ exit_status' = 1
              ELSE UNCHANGED <<raised, exit_status>>
           /\ ext_i' = IF next = "cat" THEN 1 ELSE ext_i
           /\ fs' = IF next = "cat" /\ AckLines(out) # {}
                    THEN RunTasks(fs, fs[sge_qsub_command_line.script],
                                  AcknowledgedId(out), batch.first, batch.last)
                    ELSE fs
    /\ UNCHANGED <<args_vars, nb_seq, batch, total_subfiles_nb, split_vars,
                   sge_qsub_command_line, final_msg, sge_qsub_script_fh>>

\* Step 3 of a run: qsub exits with any code, and writes one of the
\* replies of the scheduler.
Submit ==
    /\ pc = "submit"
    /\ \E errcode \in ExitCodes : \E out \in QsubReplies(batch) :
          SubmitGets(out, errcode)

\* The tuple the loop of line 407 runs over.
Extensions(fmt) == <<OutputFileExtension(fmt), "err", "out">>

\* The job id is left out of the pattern: a plausible slip.
CatPatternAnyJob(directory, jobid, extension) ==
    directory \o <<"/", "*", ".", extension>>

\* "{outdir}/{jobid}.*.{extension}"
CatPattern(directory, jobid, extension) ==
    directory \o <<"/">> \o jobid \o <<".", "*", ".", extension>>

\* "{output}.{jobid}.{extension}"
CatTarget(out, jobid, extension) == out \o <<".">> \o jobid \o <<".", extension>>

\* What "{program} {pattern} > {target}" leaves in the target when it
\* exits with errcode: the files of the expansion, in its order, one after
\* the other (nothing when the command fails).
CatOutput(files, fmt, pattern, errcode) ==
    IF errcode # 0 THEN <<>>
    ELSE IF CatProgram(fmt) = "awk" THEN AwkFiles(files, Glob(files, pattern))
    ELSE CatFiles(files, Glob(files, pattern))

\* The loop is left at the first failure: a plausible slip.
AfterConcatenationAbort(i, errcode) ==
    IF i = 3 \/ errcode > 0 THEN "cleanup" ELSE "cat"

\* A failed concatenation is tried again instead of ending the loop: a
\* plausible slip.
AfterConcatenationRetry(i, errcode) ==
    IF errcode > 0 THEN "cat" ELSE IF i = 3 THEN "cleanup" ELSE "cat"

\* Where main stands after iteration i of the loop: the loop runs over the
\* three extensions whatever the exit codes are.
AfterConcatenation(i, errcode) == IF i = 3 THEN "cleanup" ELSE "cat"

\* One iteration of the loop of lines 407 to 418: the files of one
\* extension are concatenated by the shell; the command fails when the
\* pattern matches no file, and may fail otherwise; a positive exit code
\* turns cleanup off, and the exit code is added to global_error_code.
Concatenate ==
    /\ pc = "cat"
    /\ LET extension == Extensions(output_format)[ext_i]
           pattern == CatPattern(output_directory, sge_job_id, extension)
           target == CatTarget(output, sge_job_id, extension)
       IN  \E errcode \in (IF Glob(fs, pattern) = <<>> THEN ExitCodes \ {0}
                           ELSE ExitCodes) :
              /\ fs' = [p \in DOMAIN fs \cup {target} |->
                           IF p = target
                           THEN CatOutput(fs, output_format, pattern, errcode)
                           ELSE fs[p]]
              /\ cmds' = Append(cmds, [cmd |-> "cat", ext |-> extension,
                                       code |-> errcode])
              /\ no_cleanup' = RevertToNoCleanup(no_cleanup, errcode)
              /\ global_error_code' = Accumulate(global_error_code, errcode)
              /\ pc' = AfterConcatenation(ext_i, errcode)
    /\ ext_i' = ext_i + 1
    /\ UNCHANGED <<args_vars, nb_seq, batch, total_subfiles_nb, split_vars,
                   sge_qsub_command_line, sge_job_id, final_msg, exit_status,
                   sge_qsub_out, sge_qsub_script_fh, raised>>

\* Lines 423 to 431 of main with cleanup on: "rm -rf {outdir}" runs and its
\* exit code is added to global_error_code.
Cleanup ==
    /\ pc = "cleanup"
    /\ ~no_cleanup
    /\ \E errcode \in ExitCodes :
          /\ fs' = IF errcode = 0 THEN RemoveTree(fs, output_directory) ELSE fs
          /\ cmds' = Append(cmds, [cmd |-> "rm", ext |-> "", code |-> errcode])
          /\ global_error_code' = Accumulate(global_error_code, errcode)
    /\ pc' = "exit"
    /\ UNCHANGED <<args_vars, nb_seq, batch, no_cleanup, total_subfiles_nb,
                   split_vars, sge_qsub_command_line, sge_job_id, ext_i,
                   final_msg, exit_status, sge_qsub_out, sge_qsub_script_fh,
                   raised>>

\* Line 423 of main with cleanup off: nothing is removed.
SkipCleanup ==
    /\ pc = "cleanup"
    /\ no_cleanup
    /\ pc' = "exit"
    /\ UNCHANGED <<args_vars, nb_seq, batch, no_cleanup, total_subfiles_nb,
                   split_vars, fs, shell_vars, sge_qsub_script_fh, raised>>

\* main returns 0 whatever global_error_code is, and "main(args)" drops the
\* value: the interpreter ends with status 0.
ExitStatus(acc) == 0

\* The closing message of lines 434 to 437.
FinalMessage(acc) == IF acc = 0 THEN "completed without incidents"
                     ELSE "at least one command did not end well"

\* Lines 433 to 445: the closing message, and the end of the process.
Exit ==
    /\ pc = "exit"
    /\ final_msg' = FinalMessage(global_error_code)
    /\ exit_status' = ExitStatus(global_error_code)
    /\ pc' = "done"
    /\ UNCHANGED <<args_vars, nb_seq, batch, no_cleanup, total_subfiles_nb,
                   split_vars, fs, sge_qsub_command_line, global_error_code,
                   sge_job_id, ext_i, cmds, sge_qsub_out, sge_qsub_script_fh,
                   raised>>

\* ------------------------------------------- the partitioner on its own
\* Lines the input files of SpecSplit are made of: headers (with trailing
\* blanks, empty), sequence lines (with blanks around and inside, blank),
\* and lines longer than format_seq's line width.
LongA == [i \in 1..(LineReturn - 1) |-> "A"]
SampleLines ==
    { <<">", "s", "1">>, <<">", "s", "2", " ">>, <<">">>,
      <<"A", "C">>, <<" ", "G", " ">>, <<>>,
      LongA \o <<"C", "G">>, LongA \o <<" ", "G">> }

RECURSIVE FilesUpTo(_)
\* The files of at most n lines drawn from SampleLines.
FilesUpTo(n) ==
    IF n = 0 THEN {<<>>}
    ELSE LET shorter == FilesUpTo(n - 1)
         IN  shorter \cup {Append(f, l) : f \in {g \in shorter : Len(g) = n - 1},
                                          l \in SampleLines}

\* An explicit -o/--output.
WorkDir == <<"wd">>

\* os.getpid(), in decimal.
Pid == <<"4", "2">>

\* args.output after line 248: the subfiles basename when -o is absent
\* (None or empty: <<>>).
ArgsOutput(opt, basename) == IF opt = <<>> THEN basename ELSE opt

\* The output directory without the process id: a plausible slip of
\* line 249.
OutputDirectoryWithoutPid(opt, basename, getpid) ==
    LET d == IF opt = <<>> THEN basename ELSE opt
    IN  IF d[Len(d)] = "/" THEN SubSeq(d, 1, Len(d) - 1) ELSE d

\* output_directory (lines 246 to 252): the output option, or the basename
\* with the process id when -o is absent; a final '/' is removed.
OutputDirectory(opt, basename, getpid) ==
    LET d == IF opt = <<>> THEN basename \o <<".", "pid">> \o getpid ELSE opt
    IN  IF d[Len(d)] = "/" THEN SubSeq(d, 1, Len(d) - 1) ELSE d

\* The process ids of two invocations of the program.
Pids == {Pid, <<"4", "3">>}

\* The names main derives from -i, -p, -d and -o before its first step.
MainNames(opt) ==
    /\ output_arg = opt
    /\ subfiles_basename = SubfilesBasename(InputFile, Program, DatabaseName)
    /\ output = ArgsOutput(opt, SubfilesBasename(InputFile, Program, DatabaseName))
    /\ output_directory =
           OutputDirectory(opt, SubfilesBasename(InputFile, Program, DatabaseName), pid)

\* The options main changes and the files it may change, as the caller
\* gave them.
CallerOptions ==
    /\ batch_arg = batch
    /\ no_cleanup_arg = no_cleanup
    /\ fs_start = fs

\* The locals of main and of the partitioner, and the run's trace, when
\* main starts.
MainIdle ==
    /\ total_subfiles_nb = None
    /\ sge_qsub_command_line = <<>>
    /\ global_error_code = 0
    /\ sge_job_id = <<>>
    /\ ext_i = 0
    /\ rec_i = 0
    /\ subfile_nb = 0
    /\ sequence_nb = 0
    /\ subfile_fh = <<>>
    /\ reader = ReaderStart
    /\ open_fhs = {}
    /\ cmds = <<>>
    /\ final_msg = ""
    /\ exit_status = None
    /\ sge_qsub_script_fh = "none"
    /\ sge_qsub_out = <<>>
    /\ raised = ""

\* split_multifasta_by_increment is called on any input and any
\* max_nb_seq >= 1, in an empty working directory (the options it does not
\* read have argparse's defaults).
InitSplit ==
    /\ pc = "split"
    /\ input \in FilesUpTo(MaxLines)
    /\ nb_seq \in 1..MaxNbSeq
    /\ nb_file = None
    /\ steps = {1, 2, 3}
    /\ batch = [kind |-> "all"]
    /\ output_format = "tabular"
    /\ dont_wait = FALSE
    /\ no_cleanup = FALSE
    /\ pid = Pid
    /\ refcounted = TRUE
    /\ MainNames(WorkDir)
    /\ MainIdle
    /\ fs = <<>>
    /\ CallerOptions

NextSplit == SplitRecord \/ SplitReturn

SpecSplit == InitSplit /\ [][NextSplit]_vars


\* ----------------------------------------------- the plan and the split
\* Largest number of records of an input of SpecPlan.
MaxRecords == 5
\* Largest -f/--nb_file drawn.
MaxNbFile == 3
\* Unit files a previous run left in an explicit working directory.
PriorUnits == 3

RECURSIVE FastaOf(_)
\* A FASTA text of n records, each a header line (which holds a second
\* '>') and one sequence line.
FastaOf(n) ==
    IF n = 0 THEN <<>>
    ELSE FastaOf(n - 1) \o << <<">", "s">> \o Decimal(n) \o <<" ", ">", "x">>,
                              <<"A", "C", "G">> >>

\* The job ids of two earlier array jobs whose per-task files are still
\* in the working directory: one is a prefix of the id the scheduler gives
\* in the model, the other has it as a prefix.
PriorJobIds == { <<"1">>, <<"1", "2", "3">> }

\* The per-task files of the earlier jobs: those of their task 2, of every
\* extension.
PriorJobFiles(directory, basename) ==
    {directory \o <<"/">> \o j \o <<".", "2", ".">> \o basename \o <<".", e>> :
        j \in PriorJobIds, e \in {"tab", "txt", "xml", "err", "out"}}

\* What previous runs with the same -i and -o left in the working
\* directory: the unit files and the script, and the per-task files of
\* earlier jobs.
PriorFiles(directory, basename) ==
    LET paths == {SubfilePath(directory, i, basename) : i \in 1..PriorUnits}
                     \cup {ScriptPath(directory, basename)}
                     \cup PriorJobFiles(directory, basename)
    IN  [p \in paths |->
            IF p = ScriptPath(directory, basename)
            THEN ScriptText(directory, basename, "tabular")
            ELSE IF p \in PriorJobFiles(directory, basename)
            THEN << <<"old">> >>
            ELSE << <<">", "old">>, <<"T", "T">>, <<>> >>]

\* An explicit -b/--batch.
ExplicitBatch == [kind |-> "range", first |-> 1, last |-> 2]

\* main is entered with any plan (-n alone, or -f), any steps, "all" or an
\* explicit batch, any output format, on an input of 0..MaxRecords records,
\* by one of two processes, without -o or with -o, in a working directory
\* that is new or (with -o) that a previous run used.
InitPlan ==
    /\ pc = "start"
    /\ input \in {FastaOf(n) : n \in 0..MaxRecords}
    /\ nb_seq \in 0..MaxNbSeq
    /\ nb_file \in {None} \cup 1..MaxNbFile
    /\ steps \in SUBSET {1, 2, 3}
    /\ batch \in {[kind |-> "all"], ExplicitBatch}
    /\ output_format \in {"tabular", "pairwise", "xml", "extended"}
    /\ dont_wait = FALSE
    /\ no_cleanup = FALSE
    /\ pid \in Pids
    /\ refcounted \in BOOLEAN
    /\ \E opt \in {<<>>, WorkDir} :
          /\ MainNames(opt)
          /\ fs \in {<<>>} \cup
                    (IF opt = <<>> THEN {}
                     ELSE {PriorFiles(WorkDir, SubfilesBasename(InputFile, Program,
                                                                DatabaseName))})
    /\ MainIdle
    /\ CallerOptions

NextPlan ==
    \/ PlanPartition
    \/ SplitRecord
    \/ SplitReturn
    \/ GenerateScript
    \/ BuildQsubCommand

SpecPlan == InitPlan /\ [][NextPlan]_vars

\* ------------------------------------------------------------ a whole run
\* Largest number of records of an input of Spec.
MaxRunRecords == 2

\* main is entered on an input of 0..MaxRunRecords records, with -n or
\* -f, any steps, "all" or an explicit batch, an output format of each
\* extension (the extended format, which shares tabular's extension and
\* concatenation, is drawn in SpecPlan and SpecAggregate), with or without
\* --dont_wait and --no_cleanup, without -o (a new working directory named
\* after the process id) or with -o (a working directory that is new or
\* that a previous run used).
Init ==
    /\ pc = "start"
    /\ input \in {FastaOf(n) : n \in 0..MaxRunRecords}
    /\ nb_seq \in 1..MaxNbSeq
    /\ nb_file \in {None, 1, 2}
    /\ steps \in SUBSET {1, 2, 3}
    /\ batch \in {[kind |-> "all"], ExplicitBatch}
    /\ output_format \in {"tabular", "pairwise", "xml"}
    /\ dont_wait \in BOOLEAN
    /\ no_cleanup \in BOOLEAN
    /\ pid = Pid
    /\ refcounted = TRUE
    /\ \E opt \in {<<>>, WorkDir} :
          /\ MainNames(opt)
          /\ fs \in {<<>>} \cup
                    (IF opt = <<>> THEN {}
                     ELSE {PriorFiles(WorkDir, SubfilesBasename(InputFile, Program,
                                                                DatabaseName))})
    /\ MainIdle
    /\ CallerOptions

Next ==
    \/ PlanPartition
    \/ SplitRecord
    \/ SplitReturn
    \/ GenerateScript
    \/ BuildQsubCommand
    \/ Submit
    \/ Concatenate
    \/ Cleanup
    \/ SkipCleanup
    \/ Exit

Spec == Init /\ [][Next]_vars

\* ----------------------------------------------- runs of many tasks
\* Largest number of tasks of an array job of SpecAggregate.
MaxTasks == 11

\* main is entered for a whole synchronous run (steps 1,2,3, batch "all")
\* on 1..MaxTasks records split one per unit, so that the array job has as
\* many tasks, with any output format, in a new working directory.
InitAggregate ==
    /\ pc = "start"
    /\ input \in {FastaOf(n) : n \in 1..MaxTasks}
    /\ nb_seq = 1
    /\ nb_file = None
    /\ steps = {1, 2, 3}
    /\ batch = [kind |-> "all"]
    /\ output_format \in {"tabular", "pairwise", "xml", "extended"}
    /\ dont_wait = FALSE
    /\ no_cleanup \in BOOLEAN
    /\ pid = Pid
    /\ refcounted = TRUE
    /\ MainNames(WorkDir)
    /\ MainIdle
    /\ fs = <<>>
    /\ CallerOptions

SpecAggregate == InitAggregate /\ [][Next]_vars

\* ------------------------------------------- the scheduler's replies
\* Largest number of lines of a reply of qsub in SpecAck.
MaxAckLines == 2

\* Lines qsub may write to its stdout: the acknowledgment of an array job
\* (of one of two job ids), its refusal, an empty line, and an
\* acknowledgment whose '.' is missing.
SampleAckLines(range) ==
    { QsubAck(<<"1", "2">>, range), QsubAck(<<"7">>, range), QsubRefusal, <<>>,
      <<"Your job-array ", "1", "2", "1", "-", "2", ":", "1">> }

RECURSIVE TextsUpTo(_, _)
\* The texts of at most n lines drawn from a set of lines.
TextsUpTo(n, lines) ==
    IF n = 0 THEN {<<>>}
    ELSE LET shorter == TextsUpTo(n - 1, lines)
         IN  shorter \cup {Append(f, l) : f \in {g \in shorter : Len(g) = n - 1},
                                          l \in lines}

\* Step 3 of a run when qsub may write any text of the sample lines.
SubmitAnyReply ==
    /\ pc = "submit"
    /\ \E errcode \in ExitCodes :
       \E out \in TextsUpTo(MaxAckLines, SampleAckLines(batch)) :
          SubmitGets(out, errcode)

\* main is entered for a whole run (steps 1,2,3, batch "all") on two
\* records split one per unit, with or without --dont_wait and
\* --no_cleanup, in a new working directory.
InitAck ==
    /\ pc = "start"
    /\ input = FastaOf(2)
    /\ nb_seq = 1
    /\ nb_file = None
    /\ steps = {1, 2, 3}
    /\ batch = [kind |-> "all"]
    /\ output_format = "tabular"
    /\ dont_wait \in BOOLEAN
    /\ no_cleanup \in BOOLEAN
    /\ pid = Pid
    /\ refcounted = TRUE
    /\ MainNames(WorkDir)
    /\ MainIdle
    /\ fs = <<>>
    /\ CallerOptions

NextAck ==
    \/ PlanPartition
    \/ SplitRecord
    \/ SplitReturn
    \/ GenerateScript
    \/ BuildQsubCommand
    \/ SubmitAnyReply
    \/ Concatenate
    \/ Cleanup
    \/ SkipCleanup
    \/ Exit

SpecAck == InitAck /\ [][NextAck]_vars

\* ------------------------------------------------ claims on the partition
\* The records of a FASTA text, read off the format and not off the reader:
\* one record per header line, made of the header without its '>' and of
\* the sequence lines up to the next header line.
RECURSIVE SequenceAfter(_, _)
SequenceAfter(lines, i) ==
    IF i > Len(lines) \/ IsHeaderLine(lines[i]) THEN <<>>
    ELSE strip(lines[i]) \o SequenceAfter(lines, i + 1)

RECURSIVE RecordsFrom(_, _)
RecordsFrom(lines, i) ==
    IF i > Len(lines) THEN <<>>
    ELSE IF IsHeaderLine(lines[i])
         THEN <<[header |-> rstrip(Tail(lines[i])),
                 sequence |-> SequenceAfter(lines, i + 1)]>>
              \o RecordsFrom(lines, i + 1)
         ELSE RecordsFrom(lines, i + 1)

InputRecords == RecordsFrom(input, 1)

\* The content of unit file i of the working directory.
UnitFile(i) == fs[SubfilePath(output_directory, i, subfiles_basename)]

\* The paths of the unit files 1..n.
UnitPaths(n) == {SubfilePath(output_directory, i, subfiles_basename) : i \in 1..n}

\* The number of records a unit file holds: its header lines.
UnitSize(i) == Cardinality({k \in 1..Len(UnitFile(i)) : IsHeaderLine(UnitFile(i)[k])})

RECURSIVE UnitsRecords(_, _)
\* The records of the unit files i..n, read in ascending unit index.
UnitsRecords(i, n) ==
    IF i > n THEN <<>>
    ELSE RecordsFrom(UnitFile(i), 1) \o UnitsRecords(i + 1, n)

RECURSIVE SumUnitSizes(_)
SumUnitSizes(n) == IF n = 0 THEN 0 ELSE UnitSize(n) + SumUnitSizes(n - 1)

\* split_multifasta_by_increment has returned to main.
SplitReturned == pc = "script" /\ 1 \in steps

\* C1: for every input (the empty one included) and every unit_size >= 1,
\* the unit files 1..count read in ascending index hold exactly the input
\* records, each once and in input order, and the unit sizes sum to the
\* number of input records.
C1_UnitsAreTheInput ==
    (SplitReturned /\ nb_seq >= 1) =>
        /\ UnitPaths(total_subfiles_nb) \subseteq DOMAIN fs
        /\ UnitsRecords(1, total_subfiles_nb) = InputRecords
        /\ SumUnitSizes(total_subfiles_nb) = Len(InputRecords)

\* C2: n >= 1 records split with unit_size s >= 1: every unit holds at
\* most s records, every unit but the last exactly s, the last between 1
\* and s, and the returned count is ceil(n / s), so s * count >= n.
C2_UnitSizes ==
    (SplitReturned /\ nb_seq >= 1 /\ Len(InputRecords) >= 1) =>
        LET n == Len(InputRecords)
            count == total_subfiles_nb
        IN  /\ count >= 1
            /\ UnitPaths(count) \subseteq DOMAIN fs
            /\ \A i \in 1..count : UnitSize(i) <= nb_seq
            /\ \A i \in 1..(count - 1) : UnitSize(i) = nb_seq
            /\ UnitSize(count) \in 1..nb_seq
            /\ nb_seq * count >= n
            /\ nb_seq * (count - 1) < n

\* C2's case: three records split two by two, the last unit holding one.
C2_Witness ==
    /\ SplitReturned
    /\ Len(InputRecords) = 3
    /\ nb_seq = 2
    /\ total_subfiles_nb = 2
    /\ UnitSize(2) = 1


\* ----------------------------------------------------- claims on the plan
\* -f/--nb_file was given (a count of at least one).
UnitCountRequested == nb_file # None /\ nb_file >= 1

\* main is past the derivation of args.nb_seq.
PlanDerived == pc \notin {"start", "crashed"}

\* C3: with -f, the unit_size used for partitioning is
\* ceil(total_records / unit_count) for every total_records >= 1 and every
\* unit_count >= 1: the least size s with s * unit_count >= total_records,
\* never rounded down, and not rounded up when the division is exact.
C3_DerivedUnitSizeIsCeiling ==
    (PlanDerived /\ UnitCountRequested /\ Len(InputRecords) >= 1) =>
        /\ nb_seq * nb_file >= Len(InputRecords)
        /\ (nb_seq - 1) * nb_file < Len(InputRecords)

\* C3's case: four records for three requested units, rounded up to two
\* records per unit.
C3_Witness ==
    /\ PlanDerived
    /\ nb_file = 3
    /\ Len(InputRecords) = 4
    /\ nb_seq = 2

\* C4: when unit_count is requested, the unit files the run produces are at
\* most unit_count: at no moment of the partition has a unit beyond the
\* requested count been opened.
C4_AtMostRequestedUnits ==
    UnitCountRequested =>
        /\ subfile_nb <= nb_file
        /\ SplitReturned => total_subfiles_nb <= nb_file

\* C4's case: five records in three requested units, all three opened.
C4_Witness ==
    /\ SplitReturned
    /\ nb_file = 3
    /\ Len(InputRecords) = 5
    /\ total_subfiles_nb = 3
    /\ UnitPaths(3) \subseteq DOMAIN fs


\* ------------------------------------------------------ claims on the run
RECURSIVE SumCodes(_)
\* The sum of the exit codes of a trace of commands.
SumCodes(trace) ==
    IF trace = <<>> THEN 0 ELSE Head(trace).code + SumCodes(Tail(trace))

\* A command of one of the given names has returned a non-zero exit code.
Failed(names) ==
    \E i \in 1..Len(cmds) : cmds[i].cmd \in names /\ cmds[i].code # 0

\* The command of the given name (and extension) has run, with exit code c.
Ran(name, extension, c) ==
    \E i \in 1..Len(cmds) :
        cmds[i] = [cmd |-> name, ext |-> extension, code |-> c]

\* "rm -rf" of the working directory has run.
Removed == \E i \in 1..Len(cmds) : cmds[i].cmd = "rm"

\* The number of concatenation commands that have run.
Concatenations == Cardinality({i \in 1..Len(cmds) : cmds[i].cmd = "cat"})

\* The two final statuses, as main words them.
Success == final_msg = "completed without incidents"
PartialFailure == final_msg = "at least one command did not end well"

\* The aggregated artifact of an extension.
Aggregated(extension) == CatTarget(output, sge_job_id, extension)

\* The lines of an artifact that task bodies are made of (not the
\* separator's).
BodyLines(lines) ==
    SelectSeq(lines, LAMBDA l : l # <<>> /\ Head(l) \in {"hit", "out", "err"})

RECURSIVE BodiesInTaskOrder(_, _)
\* The bodies of tasks 1, 2, ..., n of one category, in that order.
BodiesInTaskOrder(kind, n) ==
    IF n = 0 THEN <<>>
    ELSE Append(BodiesInTaskOrder(kind, n - 1), <<kind>> \o Decimal(n))

\* The body a task writes to its file of an extension starts with this word.
BodyKind(extension) == IF extension \in {"err", "out"} THEN extension ELSE "hit"

\* C5: each aggregated artifact holds the bodies of tasks 1, 2, ..., N in
\* ascending numeric task order (N = 11 included), never in the lexical
\* order 1, 10, 11, 2, ...
C5_NumericTaskOrder ==
    \A i \in 1..Len(cmds) :
        (cmds[i].cmd = "cat" /\ cmds[i].code = 0) =>
            BodyLines(fs[Aggregated(cmds[i].ext)])
                = BodiesInTaskOrder(BodyKind(cmds[i].ext), total_subfiles_nb)

C8_ExitStatusFollowsAccumulator ==
    pc = "done" =>
        /\ global_error_code = 0 => exit_status = 0
        /\ global_error_code # 0 => exit_status # 0

UnitFilesPresent ==
    {p \in DOMAIN fs :
        GlobMatch(p, output_directory \o <<"/", "*", ".">> \o subfiles_basename
                         \o <<".", "fasta">>)}

\* The Partitioner's realized count: what it returned in this run, or, when
\* step 1 is off, the unit files it left in the working directory.
RealizedUnitCount ==
    IF 1 \in steps THEN subfile_nb ELSE Cardinality(UnitFilesPresent)

\* C10: whenever the batch selector is "all", the task range passed to the
\* scheduler is 1..N with N the Partitioner's realized unit count, for
\* every step mask and both ways of giving the partition plan.
C10_AllIsRealizedRange ==
    (pc = "submit" /\ batch_arg.kind = "all") =>
        sge_qsub_command_line.t =
            [kind |-> "range", first |-> 1, last |-> RealizedUnitCount]

\* ------------------------------------------------- claims on the submission
\* The submission command has run.
Submitted == cmds # <<>> /\ cmds[1].cmd = "qsub"

\* C11: for every acknowledgment text that contains the pattern
\* "Your job-array <id>.<first>-<last>:<step>", the job id extracted is
\* exactly that <id>, and the extraction fails only when the pattern is
\* absent from the text.
C11_JobIdIsTheAcknowledged ==
    Submitted =>
        /\ AckLines(sge_qsub_out) # {} =>
               /\ raised # "IndexError"
               /\ sge_job_id = AcknowledgedId(sge_qsub_out)
        /\ raised = "IndexError" => AckLines(sge_qsub_out) = {}

\* The submission script of the run.
Script == ScriptPath(output_directory, subfiles_basename)

\* C12: when step 2 is off, a submission script that existed before the run
\* is left unchanged, byte for byte: it is the script of the earlier run
\* that the submission step finds and submits.
C12_ScriptKeptWithoutStepTwo ==
    (2 \notin steps /\ Script \in DOMAIN fs_start /\ pc \in {"qsub", "submit"}) =>
        /\ Script \in DOMAIN fs
        /\ fs[Script] = fs_start[Script]

\* A path names a unit file of the working directory.
IsUnitFile(p) ==
    GlobMatch(p, output_directory \o <<"/", "*", ".">> \o subfiles_basename
                     \o <<".", "fasta">>)

\* The unit files the working directory held when main started.
UnitFilesAtStart == {p \in DOMAIN fs_start : IsUnitFile(p)}

\* The primary result of task t of the array job.
ResultFile(t) ==
    output_directory \o <<"/">> \o sge_job_id \o <<".">> \o Decimal(t) \o <<".">>
        \o subfiles_basename \o <<".", OutputFileExtension(output_format)>>

\* The task indices of the submitted range.
TaskRange == IF batch.kind = "range" THEN batch.first..batch.last ELSE {}

\* C13: when step 1 is off, the run creates, truncates or rewrites no unit
\* file: every unit file of the working directory is one the previous run
\* left, with its content unchanged, none of them is missing before the
\* working directory is removed, and the result of a submitted task names
\* the query of the previous run's unit file.
C13_UnitFilesKeptWithoutStepOne ==
    1 \notin steps =>
        /\ \A p \in DOMAIN fs :
               \/ p \in DOMAIN fs_start /\ fs[p] = fs_start[p]
               \/ ~IsUnitFile(p)
        /\ ~Removed => \A p \in DOMAIN fs_start :
                           p \in DOMAIN fs \/ ~IsUnitFile(p)
        /\ \A t \in TaskRange :
               (sge_job_id # <<>> /\ ResultFile(t) \in DOMAIN fs) =>
                   /\ SubfilePath(output_directory, t, subfiles_basename)
                          \in DOMAIN fs_start
                   /\ fs[ResultFile(t)][2] =
                          QueryLine(fs_start[SubfilePath(output_directory, t,
                                                         subfiles_basename)])

\* C13's case: steps 2 and 3 alone in the working directory of a previous
\* run: the job was submitted, task 1 has searched the previous run's unit
\* file 1, and the unit files are the ones the run found.
C13_Witness ==
    /\ steps = {2, 3}
    /\ pc = "done"
    /\ Ran("qsub", "", 0)
    /\ UnitFilesAtStart # {}
    /\ UnitFilesPresent = UnitFilesAtStart
    /\ ResultFile(1) \in DOMAIN fs
    /\ fs[ResultFile(1)][2] = <<"Query= ", "old">>

\* C14: with --dont_wait the run executes no concatenation command and
\* never deletes the working directory, whatever qsub's outcome and the
\* caller's --no_cleanup.
C14_AsynchronousRunNeverAggregates ==
    dont_wait =>
        /\ Concatenations = 0
        /\ ~Removed
        /\ pc \notin {"cat", "cleanup"}
        /\ \A e \in {"tab", "txt", "xml", "err", "out"} :
               sge_job_id # <<>> => Aggregated(e) \notin DOMAIN fs

\* C14's case: an asynchronous run of all the steps, cleanup asked for,
\* has submitted its job with success and has ended with the unit files and
\* the script still in the working directory.
C14_Witness ==
    /\ dont_wait
    /\ pc = "done"
    /\ steps = {1, 2, 3}
    /\ ~no_cleanup_arg
    /\ batch_arg.kind = "all"
    /\ Ran("qsub", "", 0)
    /\ sge_job_id # <<>>
    /\ ~no_cleanup
    /\ UnitFilesPresent # {}
    /\ Script \in DOMAIN fs

\* The job ids main's regular expression finds in qsub's output.
ParsedIds == FindJobIds(FirstLine(sge_qsub_out))

AggregatedPresent ==
    {p \in DOMAIN fs :
        \E e \in {"tab", "txt", "xml", "err", "out"} :
            GlobMatch(p, output \o <<".", "*", ".", e>>)}

\* C16: when no job id can be parsed from qsub's output, the run stops
\* there as a failure: no concatenation command has run, no aggregated
\* artifact exists, the working directory is not deleted, and the run does
\* not report Success (it writes no closing message and its exit status is
\* not zero).
C16_ParseFailureStopsTheRun ==
    (Submitted /\ ParsedIds = <<>>) =>
        /\ pc = "crashed"
        /\ raised = "IndexError"
        /\ Len(cmds) = 1
        /\ Concatenations = 0
        /\ AggregatedPresent = {}
        /\ ~Removed
        /\ fs_start = <<>> => (UnitFilesPresent # {} <=> 1 \in steps)
        /\ Script \in DOMAIN fs
        /\ ~Success
        /\ final_msg = ""
        /\ exit_status # 0

\* C16's case: in a synchronous run of all the steps qsub has refused the
\* job without acknowledging it, and the run has stopped with its unit
\* files and its script in place.
C16_Witness ==
    /\ steps = {1, 2, 3}
    /\ ~dont_wait
    /\ ~no_cleanup_arg
    /\ Ran("qsub", "", 1)
    /\ sge_qsub_out = <<QsubRefusal>>
    /\ raised = "IndexError"
    /\ pc = "crashed"
    /\ UnitFilesPresent # {}
    /\ fs[Script] # <<>>

\* ------------------------------------------------ claims on the ordering
\* The place of a position of main in the order of its steps: partition,
\* script generation, submission with its job-id extraction, aggregation,
\* cleanup, end.
PcRank(p) ==
    CASE p = "start" -> 0
      [] p = "split" -> 1
      [] p = "script" -> 2
      [] p = "qsub" -> 3
      [] p = "submit" -> 4
      [] p = "cat" -> 5
      [] p = "cleanup" -> 6
      [] p = "exit" -> 7
      [] p = "done" -> 8
      [] p = "crashed" -> 9

\* The place of a command in the same order.
CmdRank(c) == IF c.cmd = "qsub" THEN 1 ELSE IF c.cmd = "cat" THEN 2 ELSE 3

\* What each step finds done when it begins.
StepsInOrder ==
    \* nothing of the script before the partition has ended
    /\ PcRank(pc) <= 1 =>
           /\ sge_qsub_script_fh = "none"
           /\ Script \in DOMAIN fs =>
                  Script \in DOMAIN fs_start /\ fs[Script] = fs_start[Script]
    \* no command before the script and the qsub command line are done
    /\ PcRank(pc) <= 3 => cmds = <<>> /\ sge_job_id = <<>>
    \* the task range is built from the count of an ended partition
    /\ (sge_qsub_command_line # <<>> /\ 1 \in steps) =>
           /\ rec_i = Len(read_fasta_file_handle(input))
           /\ total_subfiles_nb = subfile_nb
           /\ batch_arg.kind = "all" =>
                  sge_qsub_command_line.t = AllTaskRange(subfile_nb)
    \* the script is whole and closed when qsub runs
    /\ (2 \in steps /\ (pc = "submit" \/ Submitted)) =>
           sge_qsub_script_fh = "closed"
    /\ (2 \in steps /\ pc = "submit") =>
           fs[Script] = ScriptText(output_directory, subfiles_basename,
                                   output_format)
    \* the job id is known when a concatenation command is built
    /\ (pc = "cat" \/ Concatenations > 0) =>
           LET ids == ParsedIds
           IN  ids # <<>> /\ sge_job_id = ids[1]
    \* the commands run in the order submission, aggregation, cleanup
    /\ \A i \in 1..Len(cmds) : \A j \in 1..Len(cmds) :
           i < j => /\ CmdRank(cmds[i]) <= CmdRank(cmds[j])
                    /\ cmds[j].cmd # "qsub"

\* C17: in every run the enabled steps happen in the order partition,
\* script generation, submission, job-id extraction, aggregation, cleanup,
\* and main never goes back to an earlier step: the unit count of the task
\* range is read after the partition has ended, the script is written and
\* closed before qsub runs, and no concatenation is built before the job
\* id is known.
C17_StepsHappenInOrder ==
    /\ []StepsInOrder
    /\ [][PcRank(pc') >= PcRank(pc)]_vars

\* C17's case: a synchronous run of all the steps has gone through its
\* partition in two units, its script, its submission, its three
\* concatenations and its cleanup.
C17_Witness ==
    /\ pc = "done"
    /\ steps = {1, 2, 3}
    /\ total_subfiles_nb = 2
    /\ Ran("qsub", "", 0)
    /\ Concatenations = 3
    /\ Ran("rm", "", 0)
    /\ Len(cmds) = 5
    /\ AggregatedPresent # {}

\* ------------------------------------------- claims on a failed partition
\* C18: when a unit file cannot be created, the partition stops at that
\* unit (no record beyond the earlier units is consumed or written), the
\* unit files written before it stay in place with their records, and the
\* run is aborted: no script is generated, no command is built or run.
C18_FailedUnitFileAbortsTheRun ==
    raised = "IOError" =>
        /\ pc = "crashed"
        /\ rec_i = (subfile_nb - 1) * nb_seq
        /\ LET failed == SubfilePath(output_directory, subfile_nb,
                                     subfiles_basename)
           IN  failed \in DOMAIN fs =>
                   failed \in DOMAIN fs_start /\ fs[failed] = fs_start[failed]
        /\ UnitPaths(subfile_nb - 1) \subseteq DOMAIN fs
        /\ UnitsRecords(1, subfile_nb - 1)
               = SubSeq(read_fasta_file_handle(input), 1, rec_i)
        /\ sge_qsub_script_fh = "none"
        /\ Script \in DOMAIN fs =>
               Script \in DOMAIN fs_start /\ fs[Script] = fs_start[Script]
        /\ sge_qsub_command_line = <<>>
        /\ cmds = <<>>
        /\ final_msg = ""
        /\ exit_status # 0

\* C18's case: two records split one per unit in a new working directory;
\* the second unit file could not be created, the first holds the first
\* record, and the run has stopped without a script.
C18_Witness ==
    /\ raised = "IOError"
    /\ pc = "crashed"
    /\ fs_start = <<>>
    /\ nb_seq = 1
    /\ subfile_nb = 2
    /\ rec_i = 1
    /\ DOMAIN fs = UnitPaths(1)
    /\ UnitSize(1) = 1

\* ------------------------------------------------- claims on the script
\* The script another invocation of the program, run by process getpid
\* with the same options, generates.
ScriptOfInvocation(getpid) ==
    ScriptText(OutputDirectory(output_arg, subfiles_basename, getpid),
               subfiles_basename, output_format)

\* C19: two invocations with the same program, database, e-value, output
\* format, max targets, extra options, mail settings, input name and output
\* option generate byte-identical scripts: the script this run has written
\* is the one any other invocation writes.
C19_ScriptSameInAnyInvocation ==
    (2 \in steps /\ sge_qsub_script_fh = "closed") =>
        \A other \in Pids : fs[Script] = ScriptOfInvocation(other)

\* ---------------------------------------------- claims on the separator
RECURSIVE SeparatedFiles(_, _)
\* The contents of the files one after the other, with the separator
\* between two consecutive contents and nowhere else.
SeparatedFiles(files, paths) ==
    IF paths = <<>> THEN <<>>
    ELSE IF Len(paths) = 1 THEN files[paths[1]]
    ELSE files[Head(paths)] \o Separator \o SeparatedFiles(files, Tail(paths))

\* The primary results of the tasks, in the order of the expansion.
PrimaryBodies ==
    Glob(fs, CatPattern(output_directory, sge_job_id,
                        OutputFileExtension(output_format)))

\* C20: the aggregated primary output of N task bodies holds, for the
\* pairwise format, the separator exactly between consecutive bodies (N - 1
\* separators, none before the first body), and for tabular, xml and
\* extended the bodies one after the other with no separator.
C20_SeparatorBetweenBodies ==
    (/\ pc \in {"cat", "cleanup"}
     /\ Ran("cat", OutputFileExtension(output_format), 0)) =>
        fs[Aggregated(OutputFileExtension(output_format))] =
            IF output_format = "pairwise"
            THEN SeparatedFiles(fs, PrimaryBodies)
            ELSE CatFiles(fs, PrimaryBodies)

\* ------------------------------------------ claims on concurrent invocations
\* The -o/--output options of another invocation: absent, the directory of
\* this model's explicit option written without and with a final '/', and
\* another directory.
OutputOptions == {<<>>, WorkDir, WorkDir \o <<"/">>, <<"res">>}

\* The paths an invocation opens for writing in its working directory when
\* it makes n unit files: the unit files and the submission script.
RunPaths(directory, basename, n) ==
    {SubfilePath(directory, i, basename) : i \in 1..n}
        \cup {ScriptPath(directory, basename)}

\* The paths this run has opened for writing so far.
PathsWritten ==
    {p \in {SubfilePath(output_directory, i, subfiles_basename) : i \in 1..subfile_nb} :
        p \in DOMAIN fs}
        \cup (IF sge_qsub_script_fh = "none" THEN {}
              ELSE {ScriptPath(output_directory, subfiles_basename)})

\* The paths a concurrent invocation of another process, on the same input
\* and with the output option opt, may open for writing.
PathsOfOther(opt, getpid) ==
    RunPaths(OutputDirectory(opt, subfiles_basename, getpid), subfiles_basename,
             Len(input) + 1)

InitScenario ==
    /\ pc = "start"
    /\ input = FastaOf(105)
    /\ nb_seq = 50
    /\ nb_file \in {None, 3}
    /\ steps \in {{1, 2}, {1, 2, 3}}
    /\ batch = [kind |-> "all"]
    /\ output_format = "tabular"
    /\ dont_wait = FALSE
    /\ no_cleanup = FALSE
    /\ pid = Pid
    /\ refcounted = TRUE
    /\ MainNames(WorkDir)
    /\ MainIdle
    /\ fs = <<>>
    /\ CallerOptions

SpecScenario == InitScenario /\ [][NextPlan]_vars

\* C22: 105 records with -n 50 give exactly 3 units of 50, 50 and 5
\* records; 105 records with -f 3 give a derived unit size of 35 and
\* exactly 3 units of 35 records each.
C22_ScenarioOf105Records ==
    (SplitReturned /\ raised = "") =>
        /\ GrepCount(input) = 105
        /\ total_subfiles_nb = 3
        /\ UnitPaths(3) \subseteq DOMAIN fs
        /\ SubfilePath(output_directory, 4, subfiles_basename) \notin DOMAIN fs
        /\ nb_file = None =>
              /\ nb_seq = 50
              /\ <<UnitSize(1), UnitSize(2), UnitSize(3)>> = <<50, 50, 5>>
        /\ nb_file = 3 =>
              /\ nb_seq = 35
              /\ <<UnitSize(1), UnitSize(2), UnitSize(3)>> = <<35, 35, 35>>

\* The partitioner has returned in the run with -f 3, its third unit
\* holding 35 records.
C22_Witness ==
    /\ SplitReturned
    /\ nb_file = 3
    /\ total_subfiles_nb = 3
    /\ UnitSize(3) = 35

\* --------------------------------------------- claims on forward progress
\* The number of commands of a name (and extension) that have run.
TimesRun(name, extension) ==
    Cardinality({i \in 1..Len(cmds) : cmds[i].cmd = name /\ cmds[i].ext = extension})

\* Nothing has been done twice: the partitioner wrote each record it
\* consumed once, the script holds one copy of its text, and each command
\* ran at most once, the cleanup last.
AtMostOnce ==
    /\ rec_i <= Len(read_fasta_file_handle(input))
    /\ sequence_nb = rec_i
    /\ subfile_nb <= rec_i + 1
    /\ 1 \notin steps => rec_i = 0 /\ subfile_nb = 0
    /\ (sge_qsub_script_fh = "closed" /\ Script \in DOMAIN fs) =>
           fs[Script] = ScriptText(output_directory, subfiles_basename, output_format)
    /\ TimesRun("qsub", "") <= 1
    /\ \A e \in {"tab", "txt", "xml", "err", "out"} : TimesRun("cat", e) <= 1
    /\ TimesRun("rm", "") <= 1
    /\ Len(cmds) <= 5
    /\ pc = "cat" => ext_i \in 1..3 /\ Concatenations = ext_i - 1
    /\ Removed => cmds[Len(cmds)].cmd = "rm" /\ PcRank(pc) >= 7

\* One step of main: its position does not go back, the commands run so
\* far stay as they are and at most one is added, the partitioner's
\* counters do not decrease, and a run that has ended stays ended.
OnlyForward ==
    /\ PcRank(pc') >= PcRank(pc)
    /\ Len(cmds') <= Len(cmds) + 1
    /\ SubSeq(cmds', 1, Len(cmds)) = cmds
    /\ rec_i' >= rec_i /\ subfile_nb' >= subfile_nb
    /\ (pc' = pc /\ pc \notin {"split", "cat"}) => UNCHANGED vars
    /\ pc \in {"done", "crashed"} => UNCHANGED vars

\* C23: main only moves forward: the partition, the writing of the script,
\* the submission command, the concatenation command of each category and
\* the cleanup command are each executed at most once, and no step is
\* executed again after a command has returned a non-zero exit code.
C23_OnlyForwardAtMostOnce ==
    /\ []AtMostOnce
    /\ [][OnlyForward]_vars

\* C23's case: the submission and a concatenation have failed, and the run
\* has gone to its end with one submission and three concatenations.
C23_Witness ==
    /\ pc = "done"
    /\ Ran("qsub", "", 1)
    /\ Ran("cat", "err", 1)
    /\ TimesRun("qsub", "") = 1
    /\ Concatenations = 3
    /\ rec_i = 2

\* ------------------------------------------------- claims on file names
\* The path the last line of the script holds between the words a and b
\* (to the end of the line when b is ""), as task t of the submitted job
\* reads it.
ScriptWord(a, b, t) ==
    LET line == fs[Script][Len(fs[Script])]
        last == IF b = "" THEN Len(line) ELSE IndexOfToken(line, b) - 1
    IN  Substitute(SubSeq(line, IndexOfToken(line, a) + 1, last), sge_job_id, t)

\* "{J}.{t}.{basename}.{extension}" in the working directory, for the
\* submitted job and task t.
TaskFile(t, extension) ==
    output_directory \o <<"/">> \o sge_job_id \o <<".">> \o Decimal(t) \o <<".">>
        \o subfiles_basename \o <<".", extension>>

\* The tasks of the submitted job have run and their files are still in
\* the working directory.
TasksDone ==
    /\ pc \in {"cat", "cleanup"}
    /\ sge_qsub_script_fh = "closed"
    /\ AckLines(sge_qsub_out) # {}

\* C24: for every task index t of a submitted job J the file names agree:
\* the script reads its query from the unit file "{t}.{basename}.fasta" the
\* partitioner wrote, it writes its result, stdout and stderr to
\* "{J}.{t}.{basename}.{ext|out|err}", and each of these three files is
\* matched by the concatenation pattern of its own category for job J and
\* by the pattern of no other category.
C24_FileNamesAgree ==
    TasksDone =>
        \A t \in TaskRange :
            LET ext == OutputFileExtension(output_format)
            IN  /\ ScriptWord(" -query ", " -out ", t)
                       = SubfilePath(output_directory, t, subfiles_basename)
                /\ 1 \in steps /\ t <= subfile_nb =>
                       SubfilePath(output_directory, t, subfiles_basename) \in DOMAIN fs
                /\ ScriptWord(" -out ", " -db ", t) = TaskFile(t, ext)
                /\ ScriptWord(" > ", " 2> ", t) = TaskFile(t, "out")
                /\ ScriptWord(" 2> ", "", t) = TaskFile(t, "err")
                /\ {TaskFile(t, "out"), TaskFile(t, "err")} \subseteq DOMAIN fs
                /\ TaskFile(t, ext) \in DOMAIN fs
                       <=> SubfilePath(output_directory, t, subfiles_basename) \in DOMAIN fs
                /\ \A e \in {ext, "out", "err"} : \A c \in {ext, "out", "err"} :
                       GlobMatch(TaskFile(t, e), CatPattern(output_directory, sge_job_id, c))
                           <=> e = c

\* C24's case: the eleven tasks of a job have run, and the files of task
\* 11 are in the working directory.
C24_Witness ==
    /\ TasksDone
    /\ TaskRange = 1..11
    /\ TaskFile(11, "err") \in DOMAIN fs
    /\ TaskFile(11, OutputFileExtension(output_format)) \in DOMAIN fs
    /\ pc = "cleanup"

\* --------------------------------------- claims on the output format
\* The token that follows the word a in the last line of the script.
ScriptOption(a) ==
    LET line == fs[Script][Len(fs[Script])]
    IN  line[IndexOfToken(line, a) + 1]

\* The extension of the script's -out path: its last token.
ScriptOutExtension ==
    LET line == fs[Script][Len(fs[Script])]
    IN  line[IndexOfToken(line, " -db ") - 1]

\* The extension and the -outfmt value the claim gives for each format.
FormatTable ==
    [tabular |-> [ext |-> "tab", outfmt |-> "6"],
     pairwise |-> [ext |-> "txt", outfmt |-> "0"],
     xml |-> [ext |-> "xml", outfmt |-> "5"],
     extended |-> [ext |-> "tab", outfmt |-> "'6 std qlen slen'"]]

\* C25: the extension and the output-format flag go together for the four
\* formats (tabular: tab and 6, pairwise: txt and 0, xml: xml and 5,
\* extended: tab and '6 std qlen slen'), and the extension of the script's
\* -out path is the extension of the first concatenation, the one of the
\* primary category.
C25_ExtensionAndFlagInLockStep ==
    (sge_qsub_script_fh = "closed" /\ Script \in DOMAIN fs) =>
        /\ ScriptOutExtension = FormatTable[output_format].ext
        /\ ScriptOption(" -outfmt ") = FormatTable[output_format].outfmt
        /\ \A i \in 1..Len(cmds) :
              cmds[i].cmd = "cat" =>
                  cmds[i].ext = (IF i = 2 THEN ScriptOutExtension
                                 ELSE IF i = 3 THEN "err" ELSE "out")
        /\ Concatenations >= 1 =>
              /\ cmds[2].cmd = "cat"
              /\ GlobMatch(ScriptWord(" -out ", " -db ", 1),
                           CatPattern(output_directory, sge_job_id, cmds[2].ext))

\* C25's case: a run in the extended format has written its script and
\* run its first concatenation.
C25_Witness ==
    /\ output_format = "extended"
    /\ sge_qsub_script_fh = "closed"
    /\ Script \in DOMAIN fs
    /\ Concatenations >= 1
    /\ cmds[2].ext = "tab"

\* --------------------------------------- the forms of the output option
\* main is entered for a whole synchronous run (steps 1,2,3, batch "all")
\* on 1..MaxRunRecords records split one per unit, with each form of
\* -o/--output: absent, a plain path, a path that ends in '/'; with or
\* without --no_cleanup, in a new working directory.
InitOutput ==
    /\ pc = "start"
    /\ input \in {FastaOf(n) : n \in 1..MaxRunRecords}
    /\ nb_seq = 1
    /\ nb_file = None
    /\ steps = {1, 2, 3}
    /\ batch = [kind |-> "all"]
    /\ output_format \in {"tabular", "pairwise"}
    /\ dont_wait = FALSE
    /\ no_cleanup \in BOOLEAN
    /\ pid = Pid
    /\ refcounted = TRUE
    /\ \E opt \in {<<>>, WorkDir, WorkDir \o <<"/">>} : MainNames(opt)
    /\ MainIdle
    /\ fs = <<>>
    /\ CallerOptions

SpecOutput == InitOutput /\ [][Next]_vars

\* A path is inside the directory: the directory itself or below it.
Inside(p, directory) ==
    /\ Len(p) > Len(directory)
    /\ SubSeq(p, 1, Len(directory)) = directory
    /\ p[Len(directory) + 1] = "/"

\* Every command of the run has exited with code zero, cleanup included.
CleanRun ==
    /\ pc = "done"
    /\ Len(cmds) = 5
    /\ \A i \in 1..Len(cmds) : cmds[i].code = 0

\* C26: cleanup never deletes an aggregated artifact: for every form of
\* the output option (absent, a plain path, a path ending in '/') the
\* three aggregated files "{run_output}.{job_id}.{ext}" are written
\* outside the working directory that "rm -rf" removes, and they exist
\* after a successful run with cleanup.
C26_CleanupKeepsAggregated ==
    /\ \A i \in 1..Len(cmds) :
          cmds[i].cmd = "cat" => ~Inside(Aggregated(cmds[i].ext), output_directory)
    /\ CleanRun =>
          \A e \in {OutputFileExtension(output_format), "err", "out"} :
              Aggregated(e) \in DOMAIN fs

\* ------------------------------------------- claims on the cleanup
\* A file of the working directory is in the file system.
WorkingDirectoryKept == \E p \in DOMAIN fs : Inside(p, output_directory)

\* C27: with a batch selector other than "all" the working directory is
\* retained: the cleanup command is never executed, even when every
\* command succeeds and --no_cleanup was not given.
C27_ExplicitBatchKeepsWorkingDirectory ==
    batch_arg.kind # "all" =>
        /\ ~Removed
        /\ PcRank(pc) \in 4..8 => no_cleanup
        /\ (pc = "done" /\ Concatenations = 3) => WorkingDirectoryKept

\* C27's case: a run with an explicit batch and without --no_cleanup has
\* ended, its submission and its three concatenations having succeeded.
C27_Witness ==
    /\ batch_arg.kind # "all"
    /\ ~no_cleanup_arg
    /\ pc = "done"
    /\ Concatenations = 3
    /\ \A i \in 1..Len(cmds) : cmds[i].code = 0
    /\ WorkingDirectoryKept

\* A synchronous run of step 3 with batch "all" and cleanup not disabled,
\* whose submission and three concatenations have exited with code zero,
\* is past its cleanup step.
CleanupExpected ==
    /\ pc \in {"exit", "done"}
    /\ 3 \in steps
    /\ ~dont_wait
    /\ batch_arg.kind = "all"
    /\ ~no_cleanup_arg
    /\ Ran("qsub", "", 0)
    /\ Cardinality({i \in 1..Len(cmds) : cmds[i].cmd = "cat" /\ cmds[i].code = 0}) = 3

\* C28: in a synchronous run with the submit step enabled, batch "all",
\* cleanup not disabled, and an exit code of zero from the submission and
\* from the three concatenations, the working directory is deleted exactly
\* once, and only after the three concatenation commands have completed.
C28_CleanupOnceAfterConcatenations ==
    /\ CleanupExpected =>
          /\ TimesRun("rm", "") = 1
          /\ Len(cmds) = 5
          /\ \A i \in 2..4 : cmds[i].cmd = "cat"
          /\ cmds[5].cmd = "rm"
          /\ cmds[5].code = 0 => ~WorkingDirectoryKept
    /\ Removed => Concatenations = 3
    /\ pc = "cat" => ~Removed

\* C28's case: such a run has ended, the working directory is gone and the
\* three aggregated artifacts are there.
C28_Witness ==
    /\ CleanupExpected
    /\ pc = "done"
    /\ Ran("rm", "", 0)
    /\ ~WorkingDirectoryKept
    /\ \A e \in {OutputFileExtension(output_format), "err", "out"} :
           Aggregated(e) \in DOMAIN fs

\* ------------------------------------ claims on the files of other jobs
\* The per-task files of the submitted job for an extension.
TaskFiles(extension) == {TaskFile(t, extension) : t \in TaskRange}

\* The working directory held per-task files of other jobs when main
\* started.
OtherJobsFilesAtStart ==
    PriorJobFiles(output_directory, subfiles_basename) \cap DOMAIN fs_start # {}

\* C29: each aggregated artifact holds only per-task artifacts that carry
\* the job id extracted from the current submission: files an earlier or
\* concurrent job with another job id left in the same working directory
\* are never included.
C29_OnlyFilesOfTheJob ==
    /\ pc \in {"cat", "cleanup"} =>
          \* a pattern ends with its extension: a file is tried against
          \* the pattern of its own
          \A p \in DOMAIN fs :
              LET e == p[Len(p)]
              IN  (e \in {OutputFileExtension(output_format), "err", "out"}
                       /\ p \notin TaskFiles(e))
                      => ~GlobMatch(p, CatPattern(output_directory, sge_job_id, e))
    /\ \A i \in 1..Len(cmds) :
          (cmds[i].cmd = "cat" /\ cmds[i].code = 0
               /\ Aggregated(cmds[i].ext) \in DOMAIN fs) =>
              LET lines == fs[Aggregated(cmds[i].ext)]
              IN  /\ \A k \in 1..Len(lines) : lines[k] # <<"old">>
                  /\ \A k \in 1..Len(BodyLines(lines)) :
                        \E t \in TaskRange :
                            BodyLines(lines)[k] = <<BodyKind(cmds[i].ext)>> \o Decimal(t)

\* C29's case: the working directory held files of two other jobs, and the
\* primary artifact of the current job has been aggregated from the files
\* of its two tasks.
C29_Witness ==
    /\ OtherJobsFilesAtStart
    /\ Ran("cat", OutputFileExtension(output_format), 0)
    /\ Len(BodyLines(fs[Aggregated(OutputFileExtension(output_format))])) = 2

\* ------------------------------------------- claims on the file handles
\* split_multifasta_by_increment has returned, and main has not ended.
PartitionerReturned == 1 \in steps /\ PcRank(pc) \in 2..8

\* C30: when split_multifasta_by_increment returns no unit file is left
\* open: every unit file it opened, the last included, has been closed
\* (and so fully written) before the submission command is executed; and
\* at every moment of the partition at most one unit file is open.
C30_NoUnitFileLeftOpen ==
    /\ Cardinality(open_fhs) <= 1
    /\ PartitionerReturned => open_fhs = {}
    /\ pc = "submit" => open_fhs = {}

\* The same for an interpreter that closes a file object as soon as
\* nothing refers to it.
C30_HoldsWhenRefcounted == refcounted => C30_NoUnitFileLeftOpen

\* At every moment of the partition at most one unit file is open.
C30_AtMostOneOpen == Cardinality(open_fhs) <= 1

=============================================================================
